---- MODULE Spec2Model ----
(***************************************************************************)
(* Blogicum (blog/views.py, blog/forms.py): the request handlers of the    *)
(* blog, over the stored posts, comments and categories.  Every handler is *)
(* one action; it leaves what it answered in `response`, which the server  *)
(* then hands back (Deliver) before the next request is taken.             *)
(***************************************************************************)
EXTENDS Integers, Sequences, FiniteSets, TLC

\* ------------------------------------------------------------------ bounds
MaxPosts == 1          \* posts ever created (cap of the primary key counter)
MaxComments == 1       \* comments ever created (cap of the primary key counter)
MaxTime == 1           \* the clock runs over 0..MaxTime
MaxLen == 1            \* characters in a submitted comment text
MaxFeed == 21          \* posts stored in the pagination specification
MaxPageArg == 4        \* largest numeric ?page= value requested

POSTS_PER_PAGE == 10

\* ------------------------------------------------------------------ domain
Users == {"u1", "u2"}
Anonymous == "anonymous"
Requesters == Users \cup {Anonymous}
Usernames == Users \cup {"nobody"}          \* "nobody" is no stored user

Categories == {"c1", "c2"}
NoCategory == "NULL"                         \* Post.category is NULL
Slugs == Categories \cup {"no-such-slug"}    \* a category's slug is its name

Methods == {"GET", "POST"}
PubDates == {0, MaxTime}

\* A character of a comment text: a letter, a whitespace, the NUL character.
Chars == {"a", " ", "NUL"}

RECURSIVE SeqsUpTo(_, _)
SeqsUpTo(S, n) ==
    IF n = 0 THEN {<< >>}
    ELSE LET shorter == SeqsUpTo(S, n - 1)
         IN  shorter \cup {Append(s, x) : s \in shorter, x \in S}

\* request.POST["text"]: absent, or a string of at most MaxLen characters.
RawTexts ==
    {[present |-> FALSE, chars |-> << >>]}
        \cup {[present |-> TRUE, chars |-> s] : s \in SeqsUpTo(Chars, MaxLen)}

\* The data of a submitted PostForm: ok is whether the fields the model
\* demands (title, text, ...) are all well-formed.
PostForms ==
    [ok : {TRUE}, pub_date : PubDates, is_published : BOOLEAN,
     category : Categories \cup {NoCategory}]
        \cup {[ok |-> FALSE, pub_date |-> 0, is_published |-> FALSE,
                category |-> NoCategory]}

\* request.GET.get("page"): absent, a non-numeric string, or a numeral.
PageParams ==
    {[kind |-> "none", n |-> 0], [kind |-> "text", n |-> 0]}
        \cup {[kind |-> "int", n |-> i] : i \in 0..MaxPageArg}

VARIABLES posts, comments, nextPostId, nextCommentId, catPublished, now, response

vars == <<posts, comments, nextPostId, nextCommentId, catPublished, now, response>>
db == <<posts, comments, nextPostId, nextCommentId, catPublished, now>>

\* ---------------------------------------------------------------- response
Idle ==
    [view |-> "", user |-> "", method |-> "", post |-> 0, comment |-> 0,
     name |-> "", text |-> [present |-> FALSE, chars |-> << >>],
     kind |-> "", to |-> "", to_post |-> 0, to_name |-> "",
     page |-> [kind |-> "none", n |-> 0],
     items |-> << >>, number |-> 0, num_pages |-> 0]

Request(view, user, method) ==
    [Idle EXCEPT !.view = view, !.user = user, !.method = method]

render(req) == [req EXCEPT !.kind = "render"]
Http404(req) == [req EXCEPT !.kind = "not_found"]
ServerError(req) == [req EXCEPT !.kind = "server_error"]
redirect_login(req) == [req EXCEPT !.kind = "redirect", !.to = "login"]
redirect_post_detail(req, post_id) ==
    [req EXCEPT !.kind = "redirect", !.to = "blog:post_detail", !.to_post = post_id]
redirect_profile(req, username) ==
    [req EXCEPT !.kind = "redirect", !.to = "blog:profile", !.to_name = username]

is_authenticated(user) == user \in Users

\* --------------------------------------------------------------- the store
\* Post.objects.all(): the primary keys of the stored posts.
AllPosts == DOMAIN posts
AllComments == DOMAIN comments

\* The rows of blog_post joined with blog_category on category_id (INNER
\* JOIN): a post whose category is NULL has no row.
JoinCategory(queryset) ==
    {<<p, c>> \in queryset \X Categories : posts[p].category = c}

\* get_published_posts with the category__is_published condition left out.
get_published_posts_any_category(queryset) ==
    {p \in queryset : posts[p].pub_date <= now /\ posts[p].is_published}

get_published_posts(queryset) ==
    {row[1] : row \in {r \in JoinCategory(queryset) :
                          /\ posts[r[1]].pub_date <= now
                          /\ posts[r[1]].is_published
                          /\ catPublished[r[2]]}}

\* The rows of a queryset LEFT OUTER JOINed with blog_comment on post_id: one
\* row per comment of the post, and one row with no comment (0) for a post
\* that has none.
JoinComments(queryset) ==
    {<<p, c>> \in queryset \X AllComments : comments[c].post = p}
        \cup {<<p, 0>> : p \in {q \in queryset :
                                  \A c \in AllComments : comments[c].post # q}}

\* annotate_comment_count counting the rows of the group, Count("*").
annotate_comment_count_rows(queryset) ==
    {[post |-> p,
      comment_count |-> Cardinality({row \in JoinComments(queryset) : row[1] = p})]
     : p \in queryset}

\* Count("comments"), grouped by post: the rows of the group whose comment id
\* is not NULL.
annotate_comment_count(queryset) ==
    {[post |-> p,
      comment_count |->
          Cardinality({row \in JoinComments(queryset) : row[1] = p /\ row[2] # 0})]
     : p \in queryset}

\* order_by(*Post._meta.ordering), the ordering being ("-pub_date",): every
\* sequence of the rows by descending pub_date; the store orders equal
\* pub_dates as it likes.
RECURSIVE order_by(_)
order_by(rows) ==
    IF rows = {} THEN {<< >>}
    ELSE UNION {{<<first>> \o rest : rest \in order_by(rows \ {first})}
                : first \in {r \in rows :
                               \A o \in rows :
                                   posts[o.post].pub_date <= posts[r.post].pub_date}}

\* post.comments.all(), Comment's ordering being ("created_at",): the primary
\* keys, which grow with creation.
RECURSIVE SortedIds(_)
SortedIds(ids) ==
    IF ids = {} THEN << >>
    ELSE LET least == CHOOSE i \in ids : \A j \in ids : i <= j
         IN  <<least>> \o SortedIds(ids \ {least})

post_comments(p) == SortedIds({c \in AllComments : comments[c].post = p})

\* --------------------------------------------------------------- paginator
Max(a, b) == IF a >= b THEN a ELSE b

\* Paginator.num_pages, with orphans = 0 and allow_empty_first_page = True.
num_pages(count, per_page) == (Max(1, count) + per_page - 1) \div per_page

\* Paginator.validate_number: "" and the number, or the exception raised.
validate_number(page_number, pages) ==
    IF page_number.kind # "int" THEN [raised |-> "PageNotAnInteger", n |-> 0]
    ELSE IF page_number.n < 1 THEN [raised |-> "EmptyPage", n |-> 0]
    ELSE IF page_number.n > pages THEN [raised |-> "EmptyPage", n |-> 0]
    ELSE [raised |-> "", n |-> page_number.n]

\* Paginator.page(number).object_list: object_list[bottom:top].
page_slice(object_list, number, per_page) ==
    LET count == Len(object_list)
        bottom == (number - 1) * per_page
        top == IF bottom + per_page >= count THEN count ELSE bottom + per_page
    IN  IF bottom >= top THEN << >> ELSE SubSeq(object_list, bottom + 1, top)

\* Paginator.get_page: a number that is no integer gives page 1, one out of
\* range the last page.
get_page(page_number, object_list, per_page) ==
    LET pages == num_pages(Len(object_list), per_page)
        v == validate_number(page_number, pages)
        number == IF v.raised = "PageNotAnInteger" THEN 1
                  ELSE IF v.raised = "EmptyPage" THEN pages
                  ELSE v.n
    IN  [raised |-> "", number |-> number, num_pages |-> pages,
         object_list |-> page_slice(object_list, number, per_page)]

\* paginate_queryset with paginator.page(page_number) for get_page: the
\* exception of validate_number is not caught.
paginate_queryset_page(page_number, object_list) ==
    LET pages == num_pages(Len(object_list), POSTS_PER_PAGE)
        v == validate_number(page_number, pages)
    IN  IF v.raised # ""
        THEN [raised |-> v.raised, number |-> 0, num_pages |-> pages,
              object_list |-> << >>]
        ELSE [raised |-> "", number |-> v.n, num_pages |-> pages,
              object_list |-> page_slice(object_list, v.n, POSTS_PER_PAGE)]

paginate_queryset(page_number, object_list) ==
    get_page(page_number, object_list, POSTS_PER_PAGE)

\* render(request, template, {"page_obj": page_obj}); an exception of the
\* paginator would leave the view as a server error.
render_page(req, page_obj) ==
    IF page_obj.raised # "" THEN ServerError(req)
    ELSE [render(req) EXCEPT !.items = page_obj.object_list,
                             !.number = page_obj.number,
                             !.num_pages = page_obj.num_pages]

\* ------------------------------------------------------------------- forms
RECURSIVE lstrip(_)
lstrip(s) == IF s # << >> /\ Head(s) = " " THEN lstrip(Tail(s)) ELSE s

RECURSIVE rstrip(_)
rstrip(s) ==
    IF s # << >> /\ s[Len(s)] = " " THEN rstrip(SubSeq(s, 1, Len(s) - 1)) ELSE s

\* forms.CharField.to_python: an absent value is "", a given one is stripped.
to_python(raw) == IF raw.present THEN lstrip(rstrip(raw.chars)) ELSE << >>

\* CommentForm.cleaned_data["text"].
cleaned_text(raw) == to_python(raw)

\* CommentForm.is_valid() of a text field that does not strip.
CommentForm_is_valid_unstripped(raw) ==
    /\ raw.present
    /\ raw.chars # << >>
    /\ \A i \in 1..Len(raw.chars) : raw.chars[i] # "NUL"

\* CommentForm.is_valid(): text is required, and may hold no NUL character.
CommentForm_is_valid(raw) ==
    /\ cleaned_text(raw) # << >>
    /\ \A i \in 1..Len(cleaned_text(raw)) : cleaned_text(raw)[i] # "NUL"

\* ---------------------------------------------------------- read-only views
index_response(user, page_number) ==
    LET req == [Request("index", user, "GET") EXCEPT !.page = page_number]
        post_list == order_by(annotate_comment_count(get_published_posts(AllPosts)))
    IN  {render_page(req, paginate_queryset(page_number, object_list))
         : object_list \in post_list}

index(user, page_number) ==
    /\ response = Idle
    /\ response' \in index_response(user, page_number)
    /\ UNCHANGED db

\* post.pub_date <= now and post.is_published and post.category.is_published:
\* "and" stops at the first false operand, and .is_published of a category
\* that is None raises AttributeError.
publication_test(p) ==
    IF ~(posts[p].pub_date <= now) THEN "false"
    ELSE IF ~posts[p].is_published THEN "false"
    ELSE IF posts[p].category = NoCategory THEN "AttributeError"
    ELSE IF catPublished[posts[p].category] THEN "true"
    ELSE "false"

\* get_object_or_404(Post, pk=post_id, pub_date__lte=now, is_published=True,
\* category__is_published=True) finds a row.
published_lookup(p) ==
    \E row \in JoinCategory(AllPosts \cap {p}) :
        /\ posts[row[1]].pub_date <= now
        /\ posts[row[1]].is_published
        /\ catPublished[row[2]]

post_detail_response(user, post_id) ==
    LET req == [Request("post_detail", user, "GET") EXCEPT !.post = post_id]
    IN  IF post_id \notin AllPosts THEN Http404(req)
        ELSE IF publication_test(post_id) = "AttributeError" THEN ServerError(req)
        ELSE IF /\ publication_test(post_id) = "false"
                /\ user # posts[post_id].author
                /\ ~published_lookup(post_id)
             THEN Http404(req)
        ELSE [render(req) EXCEPT !.items = post_comments(post_id)]

post_detail(user, post_id) ==
    /\ response = Idle
    /\ response' = post_detail_response(user, post_id)
    /\ UNCHANGED db

\* category_posts over Post.objects.all() for category.posts.all().
category_post_set_all(category) == AllPosts

\* category.posts.all() of the category found by get_object_or_404(Category,
\* slug=category_slug, is_published=True).
category_post_set(category) == {p \in AllPosts : posts[p].category = category}

category_found(category_slug) ==
    {c \in Categories : c = category_slug /\ catPublished[c]}

category_posts_response(user, category_slug, page_number) ==
    LET req == [Request("category_posts", user, "GET")
                   EXCEPT !.name = category_slug, !.page = page_number]
    IN  IF category_found(category_slug) = {} THEN {Http404(req)}
        ELSE LET category == CHOOSE c \in category_found(category_slug) : TRUE
                 post_list == order_by(annotate_comment_count(
                                  get_published_posts(category_post_set(category))))
             IN  {render_page(req, paginate_queryset(page_number, object_list))
                  : object_list \in post_list}

category_posts(user, category_slug, page_number) ==
    /\ response = Idle
    /\ response' \in category_posts_response(user, category_slug, page_number)
    /\ UNCHANGED db

\* profile_user.posts: the posts whose author is profile_user.
user_posts(profile_user) == {p \in AllPosts : posts[p].author = profile_user}

\* profile with the owner's branch missing.
profile_post_set_published(user, profile_user) ==
    get_published_posts(user_posts(profile_user))

profile_post_set(user, profile_user) ==
    IF user = profile_user THEN user_posts(profile_user)
    ELSE get_published_posts(user_posts(profile_user))

profile_response(user, username, page_number) ==
    LET req == [Request("profile", user, "GET")
                   EXCEPT !.name = username, !.page = page_number]
    IN  IF username \notin Users THEN {Http404(req)}
        ELSE {render_page(req, paginate_queryset(page_number, object_list))
              : object_list \in order_by(annotate_comment_count(
                                    profile_post_set(user, username)))}

profile(user, username, page_number) ==
    /\ response = Idle
    /\ response' \in profile_response(user, username, page_number)
    /\ UNCHANGED db

\* ------------------------------------------------------------ writing views
\* dispatch with the comparison of the authors missing.
not_author_unchecked(author, user) == FALSE

\* post.author != request.user, comment.author != request.user
not_author(author, user) == author # user

PostCreateView(user, method, form) ==
    LET req == Request("PostCreateView", user, method)
    IN  /\ response = Idle
        /\ IF ~is_authenticated(user)
           THEN response' = redirect_login(req) /\ UNCHANGED db
           ELSE IF method = "GET" \/ ~form.ok
           THEN response' = render(req) /\ UNCHANGED db
           ELSE /\ nextPostId <= MaxPosts
                /\ posts' = (nextPostId :> [author |-> user,
                                            pub_date |-> form.pub_date,
                                            is_published |-> form.is_published,
                                            category |-> form.category]) @@ posts
                /\ nextPostId' = nextPostId + 1
                /\ response' = redirect_profile(req, user)
                /\ UNCHANGED <<comments, nextCommentId, catPublished, now>>

PostUpdateView(user, post_id, method, form) ==
    LET req == [Request("PostUpdateView", user, method) EXCEPT !.post = post_id]
    IN  /\ response = Idle
        /\ IF post_id \notin AllPosts
           THEN response' = Http404(req) /\ UNCHANGED db
           ELSE IF not_author(posts[post_id].author, user)
           THEN response' = redirect_post_detail(req, post_id) /\ UNCHANGED db
           ELSE IF ~is_authenticated(user)
           THEN response' = redirect_login(req) /\ UNCHANGED db
           ELSE IF method = "GET" \/ ~form.ok
           THEN response' = render(req) /\ UNCHANGED db
           ELSE /\ posts' = [posts EXCEPT ![post_id] =
                                [@ EXCEPT !.pub_date = form.pub_date,
                                          !.is_published = form.is_published,
                                          !.category = form.category]]
                /\ response' = redirect_post_detail(req, post_id)
                /\ UNCHANGED <<comments, nextPostId, nextCommentId, catPublished, now>>

\* Deleting a post deletes its comments with it (Comment.post cascades).
PostDeleteView(user, post_id, method) ==
    LET req == [Request("PostDeleteView", user, method) EXCEPT !.post = post_id]
    IN  /\ response = Idle
        /\ IF post_id \notin AllPosts
           THEN response' = Http404(req) /\ UNCHANGED db
           ELSE IF not_author(posts[post_id].author, user)
           THEN response' = redirect_post_detail(req, post_id) /\ UNCHANGED db
           ELSE IF ~is_authenticated(user)
           THEN response' = redirect_login(req) /\ UNCHANGED db
           ELSE IF method = "GET"
           THEN response' = render(req) /\ UNCHANGED db
           ELSE /\ posts' = [p \in AllPosts \ {post_id} |-> posts[p]]
                /\ comments' = [c \in {d \in AllComments : comments[d].post # post_id}
                                   |-> comments[c]]
                /\ response' = redirect_profile(req, user)
                /\ UNCHANGED <<nextPostId, nextCommentId, catPublished, now>>

\* add_comment looking the post up among the published posts.
add_comment_post_published(post_id) == post_id \in get_published_posts(AllPosts)

\* get_object_or_404(Post, pk=post_id) of add_comment finds the post.
add_comment_post_found(post_id) == post_id \in AllPosts

add_comment(user, post_id, text) ==
    LET req == [Request("add_comment", user, "POST") EXCEPT !.post = post_id,
                                                            !.text = text]
    IN  /\ response = Idle
        /\ IF ~is_authenticated(user)
           THEN response' = redirect_login(req) /\ UNCHANGED db
           ELSE IF ~add_comment_post_found(post_id)
           THEN response' = Http404(req) /\ UNCHANGED db
           ELSE IF ~CommentForm_is_valid(text)
           THEN response' = redirect_post_detail(req, post_id) /\ UNCHANGED db
           ELSE /\ nextCommentId <= MaxComments
                /\ comments' = (nextCommentId :> [post |-> post_id,
                                                  author |-> user,
                                                  text |-> cleaned_text(text)])
                                   @@ comments
                /\ nextCommentId' = nextCommentId + 1
                /\ response' = redirect_post_detail(req, post_id)
                /\ UNCHANGED <<posts, nextPostId, catPublished, now>>

CommentUpdateView(user, comment_id, method, text) ==
    LET req == [Request("CommentUpdateView", user, method)
                   EXCEPT !.comment = comment_id]
    IN  /\ response = Idle
        /\ IF comment_id \notin AllComments
           THEN response' = Http404(req) /\ UNCHANGED db
           ELSE IF not_author(comments[comment_id].author, user)
           THEN /\ response' = redirect_post_detail(req, comments[comment_id].post)
                /\ UNCHANGED db
           ELSE IF ~is_authenticated(user)
           THEN response' = redirect_login(req) /\ UNCHANGED db
           ELSE IF method = "GET" \/ ~CommentForm_is_valid(text)
           THEN response' = render(req) /\ UNCHANGED db
           ELSE /\ comments' = [comments EXCEPT ![comment_id].text = cleaned_text(text)]
                /\ response' = redirect_post_detail(req, comments[comment_id].post)
                /\ UNCHANGED <<posts, nextPostId, nextCommentId, catPublished, now>>

CommentDeleteView(user, comment_id, method) ==
    LET req == [Request("CommentDeleteView", user, method)
                   EXCEPT !.comment = comment_id]
    IN  /\ response = Idle
        /\ IF comment_id \notin AllComments
           THEN response' = Http404(req) /\ UNCHANGED db
           ELSE IF not_author(comments[comment_id].author, user)
           THEN /\ response' = redirect_post_detail(req, comments[comment_id].post)
                /\ UNCHANGED db
           ELSE IF ~is_authenticated(user)
           THEN response' = redirect_login(req) /\ UNCHANGED db
           ELSE IF method = "GET"
           THEN response' = render(req) /\ UNCHANGED db
           ELSE /\ comments' = [c \in AllComments \ {comment_id} |-> comments[c]]
                /\ response' = redirect_post_detail(req, comments[comment_id].post)
                /\ UNCHANGED <<posts, nextPostId, nextCommentId, catPublished, now>>

\* ------------------------------------------------------------- environment
\* The administrator sets a category's is_published.
SetCategoryPublished(category, flag) ==
    /\ response = Idle
    /\ catPublished[category] # flag
    /\ catPublished' = [catPublished EXCEPT ![category] = flag]
    /\ UNCHANGED <<posts, comments, nextPostId, nextCommentId, now, response>>

\* timezone.now() grows.
Tick ==
    /\ response = Idle
    /\ now < MaxTime
    /\ now' = now + 1
    /\ UNCHANGED <<posts, comments, nextPostId, nextCommentId, catPublished, response>>

\* The response leaves; the next request can be taken.
Deliver ==
    /\ response # Idle
    /\ response' = Idle
    /\ UNCHANGED db

\* ---------------------------------------------------------- specifications
PostIdArgs == 1..MaxPosts
CommentIdArgs == 1..MaxComments

Init ==
    /\ posts = << >>
    /\ comments = << >>
    /\ nextPostId = 1
    /\ nextCommentId = 1
    /\ catPublished = [c \in Categories |-> TRUE]
    /\ now = 0
    /\ response = Idle

ReadPost == \E u \in Requesters, p \in PostIdArgs : post_detail(u, p)
ReadIndex == \E u \in Requesters, n \in PageParams : index(u, n)
ReadCategory ==
    \E u \in Requesters, s \in Slugs, n \in PageParams : category_posts(u, s, n)
ReadProfile ==
    \E u \in Requesters, name \in Usernames, n \in PageParams : profile(u, name, n)
CreatePost ==
    \E u \in Requesters, m \in Methods, f \in PostForms : PostCreateView(u, m, f)
UpdatePost ==
    \E u \in Requesters, p \in PostIdArgs, m \in Methods, f \in PostForms :
        PostUpdateView(u, p, m, f)
DeletePost ==
    \E u \in Requesters, p \in PostIdArgs, m \in Methods : PostDeleteView(u, p, m)
AddComment ==
    \E u \in Requesters, p \in PostIdArgs, t \in RawTexts : add_comment(u, p, t)
UpdateComment ==
    \E u \in Requesters, c \in CommentIdArgs, m \in Methods, t \in RawTexts :
        CommentUpdateView(u, c, m, t)
DeleteComment ==
    \E u \in Requesters, c \in CommentIdArgs, m \in Methods :
        CommentDeleteView(u, c, m)
Administer == \E c \in Categories, b \in BOOLEAN : SetCategoryPublished(c, b)

Next ==
    \/ ReadPost
    \/ ReadIndex
    \/ ReadCategory
    \/ ReadProfile
    \/ CreatePost
    \/ UpdatePost
    \/ DeletePost
    \/ AddComment
    \/ UpdateComment
    \/ DeleteComment
    \/ Administer
    \/ Tick
    \/ Deliver

Spec == Init /\ [][Next]_vars

\* The posts, the categories and the clock, with no comment ever written.
NextFeeds ==
    \/ ReadPost
    \/ ReadIndex
    \/ ReadCategory
    \/ ReadProfile
    \/ CreatePost
    \/ UpdatePost
    \/ DeletePost
    \/ Administer
    \/ Tick
    \/ Deliver

SpecFeeds == Init /\ [][NextFeeds]_vars

\* Stored posts to start from: every post of 1..MaxPosts written, by any
\* author, published or not, in category c1 or in none.
SeedPosts ==
    [PostIdArgs -> [author : Users, pub_date : {0}, is_published : BOOLEAN,
                    category : {"c1", NoCategory}]]

\* Comments on stored posts: writing, editing and deleting them, deleting
\* posts, and the views that show them.
InitComments ==
    /\ posts \in SeedPosts
    /\ comments = << >>
    /\ nextPostId = MaxPosts + 1
    /\ nextCommentId = 1
    /\ catPublished = [c \in Categories |-> TRUE]
    /\ now = 0
    /\ response = Idle

NextComments ==
    \/ ReadPost
    \/ ReadIndex
    \/ ReadCategory
    \/ ReadProfile
    \/ DeletePost
    \/ AddComment
    \/ UpdateComment
    \/ DeleteComment
    \/ Deliver

SpecComments == InitComments /\ [][NextComments]_vars

\* Stored comments to start from: every comment of 1..MaxComments written,
\* by any author on any post.
SeedComments ==
    [CommentIdArgs -> [post : PostIdArgs, author : Users, text : {<<"a">>}]]

\* Editing and deleting stored posts (written by u1 and u2 in turn) and
\* stored comments.
InitEdit ==
    /\ posts = [p \in PostIdArgs |->
                   [author |-> IF p % 2 = 1 THEN "u1" ELSE "u2", pub_date |-> 0,
                    is_published |-> TRUE, category |-> "c1"]]
    /\ comments \in SeedComments
    /\ nextPostId = MaxPosts + 1
    /\ nextCommentId = MaxComments + 1
    /\ catPublished = [c \in Categories |-> TRUE]
    /\ now = 0
    /\ response = Idle

NextEdit ==
    \/ UpdatePost
    \/ DeletePost
    \/ UpdateComment
    \/ DeleteComment
    \/ Deliver

SpecEdit == InitEdit /\ [][NextEdit]_vars

\* The feeds over 0..MaxFeed published posts of one author in one category,
\* each with a pub_date of its own.
InitPage ==
    /\ \E n \in 0..MaxFeed :
          posts = [p \in 1..n |-> [author |-> "u1", pub_date |-> p,
                                   is_published |-> TRUE, category |-> "c1"]]
    /\ comments = << >>
    /\ nextPostId = MaxFeed + 1
    /\ nextCommentId = 1
    /\ catPublished = [c \in Categories |-> TRUE]
    /\ now = MaxFeed
    /\ response = Idle

NextPage ==
    \/ ReadIndex
    \/ ReadCategory
    \/ ReadProfile
    \/ Deliver

SpecPage == InitPage /\ [][NextPage]_vars

\* ------------------------------------------------------------------ claims
FeedViews == {"index", "category_posts", "profile"}
EditViews ==
    {"PostUpdateView", "PostDeleteView", "CommentUpdateView", "CommentDeleteView"}

\* A post is publicly visible.
PubliclyVisible(p) ==
    /\ posts[p].pub_date <= now
    /\ posts[p].is_published
    /\ posts[p].category # NoCategory
    /\ catPublished[posts[p].category]

\* The posts on the page a feed answered with.
FeedPosts(resp) == {resp.items[i].post : i \in 1..Len(resp.items)}

\* The posts a feed is to list, all pages together.
FeedSet(resp) ==
    IF resp.view = "index" THEN {p \in AllPosts : PubliclyVisible(p)}
    ELSE IF resp.view = "category_posts"
    THEN {p \in AllPosts : posts[p].category = resp.name /\ PubliclyVisible(p)}
    ELSE IF resp.user = resp.name THEN {p \in AllPosts : posts[p].author = resp.name}
    ELSE {p \in AllPosts : posts[p].author = resp.name /\ PubliclyVisible(p)}

\* C1: the global feed lists a post if and only if its pub_date has come, it
\* is published and it has a category that is published; a post with no
\* category is never listed.  (All posts of this specification fit on one
\* page, so the page answered is the whole feed.)
C1_GlobalFeedIsPublic ==
    response.view = "index" =>
        /\ response.kind = "render"
        /\ response.num_pages = 1
        /\ \A p \in AllPosts : p \in FeedPosts(response) <=> PubliclyVisible(p)
        /\ FeedPosts(response) \subseteq AllPosts

\* The global feed was answered and lists a post.
C1_Witness ==
    /\ response.view = "index"
    /\ FeedPosts(response) # {}

\* C2 as claimed: post_detail renders an existing post for its author and for
\* anyone when it is publicly visible, answers not-found otherwise, and
\* answers nothing else, whatever the post's flags and category.
C2_DetailRendersOrNotFound ==
    (response.view = "post_detail" /\ response.post \in AllPosts) =>
        IF \/ response.user = posts[response.post].author
           \/ PubliclyVisible(response.post)
        THEN response.kind = "render"
        ELSE response.kind = "not_found"

\* The edit or delete request answered concerns a stored post or comment.
EditTargetStored(resp) ==
    IF resp.view \in {"PostUpdateView", "PostDeleteView"}
    THEN resp.post \in AllPosts
    ELSE resp.comment \in AllComments

\* The author of the post or comment an edit or delete request concerns, and
\* the post concerned.
EditTargetAuthor(resp) ==
    IF resp.view \in {"PostUpdateView", "PostDeleteView"}
    THEN posts[resp.post].author
    ELSE comments[resp.comment].author

EditTargetPost(resp) ==
    IF resp.view \in {"PostUpdateView", "PostDeleteView"}
    THEN resp.post
    ELSE comments[resp.comment].post

\* C3: an edit or delete request (GET or POST) of an authenticated user who
\* is not the author of the stored post or comment is answered with a
\* redirect to the detail view of the post concerned, and changes nothing
\* stored.
C3_NonOwnerRedirectedNoChange ==
    [][(/\ response'.view \in EditViews
        /\ response'.user \in Users
        /\ EditTargetStored(response')
        /\ EditTargetAuthor(response') # response'.user)
       => /\ response'.kind = "redirect"
          /\ response'.to = "blog:post_detail"
          /\ response'.to_post = EditTargetPost(response')
          /\ UNCHANGED db]_vars

\* A user who is not the author posted an edit or a delete and was sent to
\* the post's detail view.
C3_Witness ==
    /\ response.view \in EditViews
    /\ response.method = "POST"
    /\ response.user \in Users
    /\ EditTargetStored(response)
    /\ EditTargetAuthor(response) # response.user
    /\ response.to = "blog:post_detail"

\* C4 as claimed: an unauthenticated edit or delete request for a stored post
\* or comment is redirected to the login page.
C4_AnonymousSentToLogin ==
    (/\ response.view \in EditViews
     /\ response.user = Anonymous
     /\ EditTargetStored(response))
    => (response.kind = "redirect" /\ response.to = "login")

\* C5: the profile feed of a user lists, for that user, all the posts the
\* user wrote, and for anyone else exactly the publicly visible ones among
\* them; it never lists another author's post.
C5_ProfileFeed ==
    (response.view = "profile" /\ response.name \in Users) =>
        /\ response.kind = "render"
        /\ response.num_pages = 1
        /\ FeedPosts(response) =
               IF response.user = response.name
               THEN {p \in AllPosts : posts[p].author = response.name}
               ELSE {p \in AllPosts : /\ posts[p].author = response.name
                                      /\ PubliclyVisible(p)}

\* A user's own profile lists a post of theirs that is not publicly visible.
C5_Witness ==
    /\ response.view = "profile"
    /\ response.user = response.name
    /\ \E p \in FeedPosts(response) : ~PubliclyVisible(p)

\* C6: the category feed answers not-found for a slug of no category or of an
\* unpublished one, and otherwise lists exactly the category's posts whose
\* pub_date has come and that are published; so a published post of an
\* unpublished category is in no global or category feed, and is in its
\* author's own profile feed.
C6_CategoryFeed ==
    /\ response.view = "category_posts" =>
           IF response.name \in Categories /\ catPublished[response.name]
           THEN /\ response.kind = "render"
                /\ response.num_pages = 1
                /\ FeedPosts(response) =
                       {p \in AllPosts : /\ posts[p].category = response.name
                                         /\ posts[p].pub_date <= now
                                         /\ posts[p].is_published}
           ELSE response.kind = "not_found"
    /\ \A p \in AllPosts :
           (/\ posts[p].is_published
            /\ posts[p].category # NoCategory
            /\ ~catPublished[posts[p].category])
           => /\ response.view \in {"index", "category_posts"}
                  => p \notin FeedPosts(response)
              /\ (/\ response.view = "profile"
                  /\ response.user = posts[p].author
                  /\ response.name = posts[p].author)
                  => p \in FeedPosts(response)

\* The feed of a published category was answered and lists a post.
C6_Witness ==
    /\ response.view = "category_posts"
    /\ response.kind = "render"
    /\ FeedPosts(response) # {}

\* The comments stored for a post.
StoredComments(p) == {c \in AllComments : comments[c].post = p}

\* The step stores exactly one new comment, the given one, and changes
\* nothing else stored.
OneCommentCreated(comment) ==
    /\ \E c \in DOMAIN comments' \ AllComments :
           /\ DOMAIN comments' = AllComments \cup {c}
           /\ comments'[c] = comment
    /\ \A c \in AllComments : comments'[c] = comments[c]
    /\ UNCHANGED <<posts, catPublished, now>>

\* The text a request submitted, as it was typed: given and not empty.
SubmittedNonEmpty(raw) == raw.present /\ raw.chars # << >>

Stripped(raw) == IF raw.present THEN lstrip(rstrip(raw.chars)) ELSE << >>

\* The stripped text is not empty and holds no NUL character.
Acceptable(raw) ==
    /\ Stripped(raw) # << >>
    /\ \A i \in 1..Len(Stripped(raw)) : Stripped(raw)[i] # "NUL"

Before(resp, p) ==
    {q \in FeedSet(resp) : posts[q].pub_date > posts[p].pub_date}

\* The last page of the feed.
LastPage(resp) ==
    IF FeedSet(resp) = {} THEN 1
    ELSE (Cardinality(FeedSet(resp)) + POSTS_PER_PAGE - 1) \div POSTS_PER_PAGE

\* The page answered is page k of the feed: its i-th post is the one at place
\* (k - 1) * POSTS_PER_PAGE + i of the feed, and it holds every post of that
\* page.
IsPage(resp, k) ==
    /\ \A i \in 1..Len(resp.items) :
           /\ resp.items[i].post \in FeedSet(resp)
           /\ Cardinality(Before(resp, resp.items[i].post))
                  = (k - 1) * POSTS_PER_PAGE + i - 1
    /\ Len(resp.items) =
           IF Cardinality(FeedSet(resp)) >= k * POSTS_PER_PAGE
           THEN POSTS_PER_PAGE
           ELSE Cardinality(FeedSet(resp)) - (k - 1) * POSTS_PER_PAGE

\* The feed request found its category or user.
FeedFound(resp) ==
    IF resp.view = "category_posts" THEN resp.name \in Categories /\ catPublished[resp.name]
    ELSE IF resp.view = "profile" THEN resp.name \in Users
    ELSE TRUE

\* C9: every feed answers every page parameter with a page of at most
\* POSTS_PER_PAGE posts and never with an error: a number beyond the last
\* page gives the last page (which holds a post whenever the feed does), a
\* missing or non-numeric parameter gives page 1.
C9_Pagination ==
    (response.view \in FeedViews /\ FeedFound(response)) =>
        /\ response.kind = "render"
        /\ Len(response.items) <= POSTS_PER_PAGE
        /\ \E k \in 1..LastPage(response) : IsPage(response, k)
        /\ (response.page.kind = "int" /\ response.page.n > LastPage(response))
               => /\ IsPage(response, LastPage(response))
                  /\ FeedSet(response) # {} => response.items # << >>
        /\ response.page.kind # "int" => IsPage(response, 1)

\* A page beyond the last one was asked of a feed of several pages, and the
\* last page came.
C9_Witness ==
    /\ response.view \in FeedViews
    /\ response.kind = "render"
    /\ response.page.kind = "int"
    /\ LastPage(response) >= 2
    /\ response.page.n > LastPage(response)
    /\ response.items # << >>

\* C10 as claimed: every non-empty submission of an authenticated user to a
\* stored post stores the comment, visible post or not.
C10_NonEmptyAlwaysCreates ==
    [][(/\ response'.view = "add_comment"
        /\ response'.user \in Users
        /\ response'.post \in AllPosts
        /\ SubmittedNonEmpty(response'.text))
       => \E c \in DOMAIN comments' \ AllComments :
              /\ comments'[c].post = response'.post
              /\ comments'[c].author = response'.user]_vars

\* C10, amended: add_comment makes no visibility check: every submission of
\* an authenticated user to a stored post whose stripped text is non-empty
\* and holds no NUL character stores the comment, also when post_detail
\* answers that user not-found for that post; so a user can comment on every
\* stored post.
C10_NoVisibilityCheck ==
    [][(/\ response'.view = "add_comment"
        /\ response'.user \in Users
        /\ response'.post \in AllPosts
        /\ Acceptable(response'.text))
       => /\ \E c \in DOMAIN comments' \ AllComments :
                 /\ comments'[c].post = response'.post
                 /\ comments'[c].author = response'.user
          /\ response'.kind = "redirect"]_vars

\* A user's comment is stored on a post for which post_detail answers that
\* user not-found.
C10_Witness ==
    /\ response.view = "add_comment"
    /\ response.user \in Users
    /\ response.post \in AllPosts
    /\ \E c \in AllComments :
           /\ comments[c].post = response.post
           /\ comments[c].author = response.user
    /\ post_detail_response(response.user, response.post).kind = "not_found"

====
